---------------------------- MODULE Spec2Model ----------------------------
(***************************************************************************)
(* A model of the agentic RAG core of KandaLK/Agent:                       *)
(*   - AgentOrchestrator.process_query and its iterative processing loop   *)
(*     with the thread-pool batch of _execute_tools_parallel               *)
(*     (src/server/agents/core/agent_orchestrator.py);                     *)
(*   - ToolRegistry: registration, the category index, the four selection  *)
(*     strategies and execute_tool's bookkeeping                           *)
(*     (src/server/agents/tools/tool_registry.py).                         *)
(*                                                                         *)
(* Scores that the code keeps as floats in [0,1] are kept in tenths        *)
(* (0.8 is 8), so every comparison of the code is an integer comparison.   *)
(***************************************************************************)
EXTENDS Integers, Sequences, FiniteSets, TLC

(***************************************************************************)
(* Bounds of the model.                                                    *)
(***************************************************************************)
\* max_iterations is configuration; the model runs it over 0..MaxIter.
MaxIter == 3
\* select_tools is called with max_tools in 0..MaxTools.
MaxTools == 3
\* process_query calls made on one orchestrator (FollowUpSpec).
MaxCalls == 2
\* execute_tool calls made on one registry (ExecSpec).
MaxExec == 2
\* _update_performance_tracking calls made on one record (TrackSpec).
MaxTrack == 12

(***************************************************************************)
(* Program constants (AgentOrchestrator.__init__), floats in tenths.       *)
(***************************************************************************)
domain_relevance_threshold == 7
confidence_threshold == 8
default_max_iterations == 3

\* Quality scores the assessor may return (tenths of [0,1]): below and above
\* the threshold.
Scores == {3, 9}
\* Confidences the assessor may compute for a candidate (tenths of [0,1]).
Confidences == {1, 5, 9}
\* The languages of a request.
Languages == {"en", "si"}
\* QueryType values the model draws from (troubleshooting adds two tool names).
QueryTypes == {"troubleshooting", "general_inquiry"}
\* max_workers values the model runs.  A batch has two or three tools, so a
\* pool of two runs both regimes: every tool at once, and one tool queued.
\* (The default of 5, line 78, is the first regime for every batch.)
WorkerChoices == {2}
\* What one tool.execute call does in its worker thread: returns a successful
\* dict (with result records and sources), returns a dict with success False,
\* or raises.  An entry that is no dict (the coroutine that an async execute
\* returns when called in a thread, a ToolResult) makes result.get of line
\* 280 raise: that is the raising branch of assess_and_synthesize.
Outcomes == {"ok", "fail", "raise"}

\* The absent value (Python None), as a record so that it compares with responses.
None == [kind |-> "None"]
\* No registry call made yet.
NoCall == [op |-> "none"]
\* The empty dict.
EmptyMap == [t \in {} |-> None]

VARIABLES
    \* ---- AgentOrchestrator: configuration
    max_iterations,     \* self.max_iterations
    max_workers,        \* self.max_workers
    translation_cache,  \* language_processor.translation_cache
    \* ---- one process_query call
    calls,              \* the call's number on this orchestrator
    pc,                 \* position of the call
    language,           \* the language parameter
    context,            \* QueryContext (None until built)
    iteration,          \* loop counter of _iterative_processing_loop
    best_response,      \* best_response of the loop
    tool_names,         \* selected_tools of the current iteration
    future,             \* future_to_tool: submitted name -> state of its future
    results,            \* results dict of _execute_tools_parallel
    quality_score,      \* quality_score of the current iteration
    response,           \* candidate / loop result / final response in flight
    fault,              \* the exception in flight or caught ("" when none)
    final,              \* what process_query returned (None while running)
    stored,             \* number of store_interaction calls made
    \* ---- history of the call, for the properties
    batches,            \* number of batches submitted
    timed_out,          \* the current batch hit its deadline
    late,               \* the tools unfinished when the deadline fired
    max_confidence,     \* highest confidence of the candidates synthesized
    any_success,        \* some tool of some batch returned a successful result
    accepted_at,        \* iteration whose candidate was accepted (0: none)
    assessed_query,     \* the query of the last assess_results call (-1: none)
    stored_query,       \* the query of the interaction stored (-1: none)
    \* ---- ToolRegistry
    tools,              \* self.tools: the tool objects, in dict insertion order
    tool_categories,    \* self.tool_categories: category -> list of names
    tool_performance,   \* self.tool_performance: name -> record
    last_call,          \* the registry call made last, with what it returned
    executions          \* number of execute_tool calls made

orch_vars == <<max_iterations, max_workers, translation_cache, calls,
               executions, pc, language, context, iteration,
               best_response, tool_names, future, results, quality_score,
               response, fault, final, stored, batches, timed_out, late,
               max_confidence, any_success, accepted_at, assessed_query,
               stored_query>>

obj_vars   == <<max_iterations, max_workers, calls, executions, language,
               tools, tool_categories, tool_performance, last_call>>
cfg_vars   == <<obj_vars, translation_cache>>
loop_vars  == <<iteration, best_response, quality_score, response>>
batch_vars == <<tool_names, future, results, timed_out, late, batches>>
hist_vars  == <<max_confidence, any_success, accepted_at, assessed_query,
               stored_query>>

reg_vars   == <<tools, tool_categories, tool_performance>>

vars == <<orch_vars, reg_vars, last_call>>

Range(s) == {s[i] : i \in DOMAIN s}

\* Map m with key k set to v (a dict assignment).
Put(m, k, v) == [x \in DOMAIN m \cup {k} |-> IF x = k THEN v ELSE m[x]]

\* Map m without key k (del m[k]).
Drop(m, k) == [x \in DOMAIN m \ {k} |-> m[x]]

(***************************************************************************)
(*                              ToolRegistry                               *)
(***************************************************************************)

\* A tool object (BaseTool.__init__): its name, category and description,
\* how its validate_input answers, and its ToolMetadata counters.
\* success_rate is successes / usage_count and average_response_time is
\* total_time / usage_count (both 0.0 while usage_count is 0).
BaseTool(name, description, category, validation, usage, successes, time) ==
    [name |-> name, description |-> description, category |-> category,
     validation |-> validation, usage_count |-> usage,
     successes |-> successes, total_time |-> time]

\* The zeroed record register_tool stores for a name.
ZeroPerformance ==
    [total_calls |-> 0, successful_calls |-> 0, failed_calls |-> 0,
     total_time |-> 0, error_patterns |-> <<>>]

\* The registry after ToolRegistry.__init__.
EmptyRegistry ==
    [tools |-> <<>>, tool_categories |-> EmptyMap, tool_performance |-> EmptyMap]

\* The registry the variables hold.
Registry ==
    [tools |-> tools, tool_categories |-> tool_categories,
     tool_performance |-> tool_performance]

\* name in self.tools
Registered(reg, name) == \E i \in DOMAIN reg.tools : reg.tools[i].name = name

\* self.tools[name]
ToolNamed(reg, name) ==
    reg.tools[CHOOSE i \in DOMAIN reg.tools : reg.tools[i].name = name]

\* self.tools[tool.name] = tool: an existing key keeps its place in the dict.
SetTool(ts, tool) ==
    IF \E i \in DOMAIN ts : ts[i].name = tool.name
      THEN [i \in DOMAIN ts |-> IF ts[i].name = tool.name THEN tool ELSE ts[i]]
      ELSE Append(ts, tool)

\* del self.tools[name]
DelTool(ts, name) == SelectSeq(ts, LAMBDA t : t.name # name)

\* list.remove(x): the list without its first x.
RemoveFirst(list, x) ==
    LET idx == {i \in DOMAIN list : list[i] = x}
        k   == CHOOSE i \in idx : \A m \in idx : i <= m
    IN  IF idx = {} THEN list
        ELSE SubSeq(list, 1, k - 1) \o SubSeq(list, k + 1, Len(list))

\* register_tool, lines 131-136: the category mapping after the update.
register_category(cats, tool) ==
    LET with_bucket == IF tool.category \in DOMAIN cats THEN cats
                       ELSE Put(cats, tool.category, <<>>)
        bucket == with_bucket[tool.category]
    IN  IF tool.name \in Range(bucket) THEN with_bucket
        ELSE Put(with_bucket, tool.category, Append(bucket, tool.name))

\* register_tool that initializes the record of a new name only.
RegisterTool_keeping_record(reg, tool) ==
    [tools |-> SetTool(reg.tools, tool),
     tool_categories |-> register_category(reg.tool_categories, tool),
     tool_performance |-> IF tool.name \in DOMAIN reg.tool_performance
                            THEN reg.tool_performance
                            ELSE Put(reg.tool_performance, tool.name,
                                     ZeroPerformance)]

\* ToolRegistry.register_tool (lines 122-153): the registry it leaves.
RegisterTool(reg, tool) ==
    [tools |-> SetTool(reg.tools, tool),
     tool_categories |-> register_category(reg.tool_categories, tool),
     tool_performance |-> Put(reg.tool_performance, tool.name, ZeroPerformance)]

\* unregister_tool, lines 168-175: the category mapping after the removal.
unregister_category(cats, tool) ==
    IF tool.category \notin DOMAIN cats THEN cats
    ELSE LET bucket == RemoveFirst(cats[tool.category], tool.name)
         IN  IF bucket = <<>> THEN Drop(cats, tool.category)
             ELSE Put(cats, tool.category, bucket)

\* unregister_tool without lines 177-179: the performance data stays.
UnregisterTool_keeping_record(reg, name) ==
    LET tool == ToolNamed(reg, name)
    IN  [tools |-> DelTool(reg.tools, name),
         tool_categories |-> unregister_category(reg.tool_categories, tool),
         tool_performance |-> reg.tool_performance]

\* ToolRegistry.unregister_tool (lines 155-186) of a registered name.
UnregisterTool(reg, name) ==
    LET tool == ToolNamed(reg, name)
    IN  [tools |-> DelTool(reg.tools, name),
         tool_categories |-> unregister_category(reg.tool_categories, tool),
         tool_performance |-> Drop(reg.tool_performance, name)]

\* ToolRegistry.get_tool: whether the lookup finds a tool.
get_tool(name) == Registered(Registry, name)

\* ToolRegistry.get_tools_by_category
get_tools_by_category(reg, category) ==
    IF category \notin DOMAIN reg.tool_categories THEN <<>>
    ELSE LET names == SelectSeq(reg.tool_categories[category],
                                LAMBDA n : Registered(reg, n))
         IN  [i \in DOMAIN names |-> ToolNamed(reg, names[i])]

(***************************************************************************)
(* Tool selection (lines 227-361).  A query is the set of its lower-cased  *)
(* words; the context contributes its query_type.                          *)
(***************************************************************************)

\* validate_input of a tool: BaseTool's default accepts a query that is not
\* blank (lines 76-78); an overriding tool may reject the input or raise.
validate_input(tool, query) ==
    IF tool.validation = "default" THEN query # {} ELSE FALSE

\* Whether the tool's validate_input raises an Exception.
validate_input_raises(tool, query) == tool.validation = "raise"

\* The stable descending sort of list.sort(key=..., reverse=True): Better(a, b)
\* says that a's key is greater than b's; equal keys keep their order.
SortDescending(list, Better(_, _)) ==
    LET n == Len(list)
        Rank(i) == Cardinality({j \in 1..n :
                        \/ Better(list[j], list[i])
                        \/ (~Better(list[i], list[j]) /\ j < i)}) + 1
    IN  [r \in 1..n |-> list[CHOOSE i \in 1..n : Rank(i) = r]]

\* list[:k]
Take(list, k) == SubSeq(list, 1, IF k < Len(list) THEN k ELSE Len(list))

\* Lines 259-269, ten times the performance score as a fraction num/den:
\* 5 * success_rate + 3 * time_score + 2 * usage_weight.
ScoreNum(tool) ==
    LET u == tool.usage_count
        T == tool.total_time
        w == IF u < 10 THEN u ELSE 10
    IN  IF u = 0 THEN 3
        ELSE IF T = 0 THEN 25 * tool.successes + 15 * u + w * u
        ELSE 25 * tool.successes * (u + T) + 15 * u * u + w * u * (u + T)

ScoreDen(tool) ==
    LET u == tool.usage_count
        T == tool.total_time
    IN  IF u = 0 THEN 1 ELSE IF T = 0 THEN 5 * u ELSE 5 * u * (u + T)

BetterPerformance(a, b) == ScoreNum(a) * ScoreDen(b) > ScoreNum(b) * ScoreDen(a)

Names(tool_list) == [i \in DOMAIN tool_list |-> tool_list[i].name]

\* _select_by_performance without the validate_input test of line 257.
select_by_performance_unvalidated(reg, query, max_tools) ==
    Take(Names(SortDescending(reg.tools, BetterPerformance)), max_tools)

\* _select_by_performance without the sort of line 273.
select_by_performance_unsorted(reg, query, max_tools) ==
    Take(Names(SelectSeq(reg.tools, LAMBDA t : validate_input(t, query))),
         max_tools)

\* ToolRegistry._select_by_performance (lines 249-274)
select_by_performance(reg, query, max_tools) ==
    LET valid == SelectSeq(reg.tools, LAMBDA t : validate_input(t, query))
    IN  Take(Names(SortDescending(valid, BetterPerformance)), max_tools)

\* Lines 281-293: the categories of a query type.
category_mapping(query_type) ==
    IF query_type = "troubleshooting" THEN <<"search", "analysis", "diagnostic">>
    ELSE IF query_type = "comparison" THEN <<"search", "analysis", "comparison">>
    ELSE IF query_type = "configuration" THEN <<"search", "documentation", "tutorial">>
    ELSE IF query_type = "performance" THEN <<"search", "analysis", "monitoring">>
    ELSE <<"search", "general">>

\* Lines 298-302: one category's tools are appended while there is room.
RECURSIVE append_validated(_, _, _, _)
append_validated(selected, category_tools, query, max_tools) ==
    IF category_tools = <<>> \/ Len(selected) >= max_tools THEN selected
    ELSE append_validated(
            IF validate_input(Head(category_tools), query)
              THEN Append(selected, Head(category_tools).name) ELSE selected,
            Tail(category_tools), query, max_tools)

\* Lines 295-302: the categories are walked in order.
RECURSIVE walk_categories(_, _, _, _, _)
walk_categories(reg, selected, categories, query, max_tools) ==
    IF categories = <<>> THEN selected
    ELSE walk_categories(reg,
            append_validated(selected,
                             get_tools_by_category(reg, Head(categories)),
                             query, max_tools),
            Tail(categories), query, max_tools)

\* ToolRegistry._select_by_category (lines 276-304)
select_by_category(reg, query, query_type, max_tools) ==
    Take(walk_categories(reg, <<>>, category_mapping(query_type), query, max_tools),
         max_tools)

\* Lines 320-324: the relevance of a tool is |common words| / |query words|;
\* for one query the numerators order the tools (0 for a query without words).
Relevance(tool, query) ==
    IF query = {} THEN 0 ELSE Cardinality(query \cap tool.description)

\* ToolRegistry._select_by_relevance (lines 306-330)
select_by_relevance(reg, query, max_tools) ==
    LET valid == SelectSeq(reg.tools, LAMBDA t : validate_input(t, query))
        MoreRelevant(a, b) == Relevance(a, query) > Relevance(b, query)
    IN  Take(Names(SortDescending(valid, MoreRelevant)), max_tools)

\* The keys of tool_scores in insertion order: the first occurrences in list.
RECURSIVE FirstOccurrences(_)
FirstOccurrences(list) ==
    IF list = <<>> THEN <<>>
    ELSE LET init == FirstOccurrences(SubSeq(list, 1, Len(list) - 1))
             last == list[Len(list)]
         IN  IF last \in Range(init) THEN init ELSE Append(init, last)

\* Lines 347-357: what one strategy's list adds to a tool's score, times
\* max_tools: weight * (max_tools - i) for every position i of the name.
PositionalScore(weight, list, name, max_tools) ==
    LET Sum[i \in 0..Len(list)] ==
            IF i = 0 THEN 0
            ELSE Sum[i - 1] + (IF list[i] = name
                                 THEN weight * (max_tools - (i - 1)) ELSE 0)
    IN  Sum[Len(list)]

\* ToolRegistry._select_hybrid (lines 332-361); weights 0.4, 0.4, 0.2 in tenths.
select_hybrid(reg, query, query_type, max_tools) ==
    LET performance_tools == select_by_performance(reg, query, max_tools)
        category_tools    == select_by_category(reg, query, query_type, max_tools)
        relevance_tools   == select_by_relevance(reg, query, max_tools)
        keys  == FirstOccurrences(performance_tools \o category_tools
                                  \o relevance_tools)
        Total(name) == PositionalScore(4, performance_tools, name, max_tools)
                     + PositionalScore(4, category_tools, name, max_tools)
                     + PositionalScore(2, relevance_tools, name, max_tools)
        Higher(a, b) == Total(a) > Total(b)
    IN  Take(SortDescending(keys, Higher), max_tools)

Strategies == {"performance", "category", "relevance", "hybrid"}

\* Lines 255-257 and 314-315: every tool of self.tools is validated.
validates_all_raises(reg, query) ==
    \E i \in DOMAIN reg.tools : validate_input_raises(reg.tools[i], query)

\* Lines 298-302: the walk of one category's tools raises when it reaches a
\* tool whose validate_input raises while there is room (the break of lines
\* 299-300 comes before the call).
RECURSIVE append_validated_raises(_, _, _, _)
append_validated_raises(selected, category_tools, query, max_tools) ==
    IF category_tools = <<>> \/ Len(selected) >= max_tools THEN FALSE
    ELSE IF validate_input_raises(Head(category_tools), query) THEN TRUE
    ELSE append_validated_raises(
            IF validate_input(Head(category_tools), query)
              THEN Append(selected, Head(category_tools).name) ELSE selected,
            Tail(category_tools), query, max_tools)

\* Lines 295-302: whether the walk of the categories raises.
RECURSIVE walk_categories_raises(_, _, _, _, _)
walk_categories_raises(reg, selected, categories, query, max_tools) ==
    IF categories = <<>> THEN FALSE
    ELSE IF append_validated_raises(selected,
                                    get_tools_by_category(reg, Head(categories)),
                                    query, max_tools) THEN TRUE
    ELSE walk_categories_raises(reg,
            append_validated(selected,
                             get_tools_by_category(reg, Head(categories)),
                             query, max_tools),
            Tail(categories), query, max_tools)

\* Whether _select_by_category raises (lines 276-304).
select_by_category_raises(reg, query, query_type, max_tools) ==
    walk_categories_raises(reg, <<>>, category_mapping(query_type), query,
                           max_tools)

\* Whether the strategy select_tools calls raises (lines 237-240); the hybrid
\* strategy calls the three others (lines 337-339).
strategy_raises(reg, query, query_type, strategy, max_tools) ==
    IF strategy \in {"performance", "relevance"}
      THEN validates_all_raises(reg, query)
    ELSE IF strategy = "category"
      THEN select_by_category_raises(reg, query, query_type, max_tools)
    ELSE \/ validates_all_raises(reg, query)
         \/ select_by_category_raises(reg, query, query_type, max_tools)

\* Lines 233-240: the list of the strategy called; an unknown strategy is
\* hybrid.
selected_tools(reg, query, query_type, strategy, max_tools) ==
    IF strategy = "performance" THEN select_by_performance(reg, query, max_tools)
    ELSE IF strategy = "category"
      THEN select_by_category(reg, query, query_type, max_tools)
    ELSE IF strategy = "relevance" THEN select_by_relevance(reg, query, max_tools)
    ELSE select_hybrid(reg, query, query_type, max_tools)

\* select_tools without the except clause of lines 245-247.
select_tools_without_except(reg, query, query_type, strategy, max_tools) ==
    IF strategy_raises(reg, query, query_type, strategy, max_tools)
      THEN [path |-> "raise", ret |-> <<>>]
      ELSE [path |-> "return",
            ret |-> selected_tools(reg, query, query_type, strategy, max_tools)]

\* ToolRegistry.select_tools (lines 227-247): how the call ends and what it
\* returns.
select_tools(reg, query, query_type, strategy, max_tools) ==
    [path |-> "return",
     ret |-> IF strategy_raises(reg, query, query_type, strategy, max_tools)
               THEN <<>>
               ELSE selected_tools(reg, query, query_type, strategy, max_tools)]

(***************************************************************************)
(* execute_tool (lines 363-424) and its bookkeeping.                       *)
(***************************************************************************)

\* Latencies execute_tool measures, in time units.
ResponseTimes == {1}

\* ToolResult, by the fields the callers read.
ToolResult(tool_name, success, error_message) ==
    [tool_name |-> tool_name, success |-> success,
     error_message |-> error_message]

\* BaseTool.update_metrics (lines 80-99).
update_metrics(tool, success, response_time) ==
    [tool EXCEPT !.usage_count = @ + 1,
                 !.successes = @ + (IF success THEN 1 ELSE 0),
                 !.total_time = @ + response_time]

\* error_patterns[:10]
FirstTen(list) ==
    IF Len(list) <= 10 THEN list ELSE SubSeq(list, 1, 10)

\* error_patterns[-10:]
LastTen(list) ==
    IF Len(list) <= 10 THEN list ELSE SubSeq(list, Len(list) - 9, Len(list))

\* _update_performance_tracking that counts a failure only when it comes
\* with an error message.
update_performance_tracking_uncounted(perf, tool_name, success, response_time, error_message) ==
    IF tool_name \notin DOMAIN perf THEN perf
    ELSE Put(perf, tool_name,
             [perf[tool_name] EXCEPT
                !.total_calls = @ + 1,
                !.successful_calls = @ + (IF success THEN 1 ELSE 0),
                !.failed_calls = @ + (IF ~success /\ error_message # ""
                                        THEN 1 ELSE 0),
                !.error_patterns =
                    IF ~success /\ error_message # ""
                      THEN LastTen(Append(@, error_message)) ELSE @,
                !.total_time = @ + response_time])

\* ToolRegistry._update_performance_tracking (lines 426-455).
update_performance_tracking(perf, tool_name, success, response_time, error_message) ==
    IF tool_name \notin DOMAIN perf THEN perf
    ELSE Put(perf, tool_name,
             [perf[tool_name] EXCEPT
                !.total_calls = @ + 1,
                !.successful_calls = @ + (IF success THEN 1 ELSE 0),
                !.failed_calls = @ + (IF success THEN 0 ELSE 1),
                !.error_patterns =
                    IF ~success /\ error_message # ""
                      THEN LastTen(Append(@, error_message)) ELSE @,
                !.total_time = @ + response_time])

\* Lines 398-405 and 408-412: the metrics and the record after a call that
\* reached tool.execute.
recorded(reg, tool_name, success, response_time, error_message) ==
    [tools |-> SetTool(reg.tools,
                       update_metrics(ToolNamed(reg, tool_name), success,
                                      response_time)),
     tool_categories |-> reg.tool_categories,
     tool_performance |-> update_performance_tracking(reg.tool_performance,
                              tool_name, success, response_time, error_message)]

\* The paths of execute_tool behind the lookup of line 366.
ExecuteFound(reg, tool_name, query, outcome, response_time) ==
    IF ~validate_input(ToolNamed(reg, tool_name), query)
      THEN [ret |-> ToolResult(tool_name, FALSE, "Input validation failed"),
            reg |-> reg, path |-> "rejected", raised |-> FALSE]
    ELSE IF outcome = "raise"
      THEN [ret |-> ToolResult(tool_name, FALSE, "exception"),
            reg |-> recorded(reg, tool_name, FALSE, response_time, "exception"),
            path |-> "raise", raised |-> FALSE]
    ELSE [ret |-> ToolResult(tool_name, outcome = "ok",
                             IF outcome = "ok" THEN "" ELSE "tool error"),
          reg |-> recorded(reg, tool_name, outcome = "ok", response_time, ""),
          path |-> outcome, raised |-> FALSE]

\* execute_tool without the lookup of lines 366-375: self.tools[tool_name]
\* raises KeyError outside the try block.
ExecuteTool_without_lookup(reg, tool_name, query, outcome, response_time) ==
    IF ~Registered(reg, tool_name)
      THEN [ret |-> ToolResult(tool_name, FALSE, "KeyError"), reg |-> reg,
            path |-> "not found", raised |-> TRUE]
    ELSE ExecuteFound(reg, tool_name, query, outcome, response_time)

\* ToolRegistry.execute_tool (lines 363-424): what it returns and the
\* registry it leaves, for what tool.execute does (outcome); no path raises.
ExecuteTool(reg, tool_name, query, outcome, response_time) ==
    IF ~Registered(reg, tool_name)
      THEN [ret |-> ToolResult(tool_name, FALSE, "not found"), reg |-> reg,
            path |-> "not found", raised |-> FALSE]
    ELSE ExecuteFound(reg, tool_name, query, outcome, response_time)

(***************************************************************************)
(* The tools AgentOrchestrator._initialize_tools registers, in order.      *)
(* TranslationTool and RerankTool are not among the sources; the           *)
(* orchestrator asks for the latter by the name "rerank".                  *)
(***************************************************************************)
InitialTools ==
    << BaseTool("vector_search", {"search", "cloud", "knowledge"}, "search",
                "default", 0, 0, 0),
       BaseTool("web_search", {"search", "cloud", "web"}, "search",
                "default", 0, 0, 0),
       BaseTool("translate", {"translate"}, "language", "default", 0, 0, 0),
       BaseTool("rerank", {"rerank", "results"}, "analysis", "default", 0, 0, 0) >>

RECURSIVE RegisterAll(_, _)
RegisterAll(reg, ts) ==
    IF ts = <<>> THEN reg
    ELSE RegisterAll(RegisterTool(reg, Head(ts)), Tail(ts))

(***************************************************************************)
(* AgentOrchestrator._select_tools                                         *)
(***************************************************************************)
select_tools_for(ctx) ==
    <<"vector_search">>
    \o (IF ctx.web_search_enabled THEN <<"web_search">> ELSE <<>>)
    \o <<"rerank">>
    \o (IF ctx.query_type = "troubleshooting"
          THEN <<"error_analyzer", "solution_finder">>
        ELSE IF ctx.query_type = "comparison"
          THEN <<"service_comparator", "feature_analyzer">>
        ELSE IF ctx.query_type = "performance"
          THEN <<"performance_analyzer", "optimization_advisor">>
        ELSE <<>>)

(***************************************************************************)
(* Responses                                                               *)
(***************************************************************************)
AgentResponse(content, confidence, sources, tool_results, lang, clarify, it) ==
    [kind |-> "AgentResponse", content |-> content,
     detail |-> [lang |-> "", quotes |-> ""],
     confidence |-> confidence,
     sources |-> sources, tool_results |-> tool_results, language |-> lang,
     requires_clarification |-> clarify, note |-> FALSE, iteration |-> it]

\* _generate_response_content without the test of lines 317-318.
generate_response_content_without_no_results(ctx, has_results) ==
    IF ctx.query_type = "troubleshooting" THEN "troubleshooting_guide"
    ELSE IF ctx.query_type = "comparison" THEN "comparison"
    ELSE IF ctx.query_type = "configuration" THEN "configuration_guide"
    ELSE "general_information"

\* _generate_response_content: the text chosen for the combined results.
generate_response_content(ctx, has_results) ==
    IF ~has_results THEN "no_results"
    ELSE IF ctx.query_type = "troubleshooting" THEN "troubleshooting_guide"
    ELSE IF ctx.query_type = "comparison" THEN "comparison"
    ELSE IF ctx.query_type = "configuration" THEN "configuration_guide"
    ELSE "general_information"

\* _synthesize_response, with the confidence the quality assessor computed.
synthesize_response(ctx, res, conf, it) ==
    LET succeeded == {t \in DOMAIN res : res[t].success}
    IN  AgentResponse(generate_response_content(ctx, succeeded # {}), conf,
                      IF succeeded # {} THEN {"sources"} ELSE {},
                      DOMAIN res, ctx.language, FALSE, it)

\* _create_fallback_response
create_fallback_response(ctx) ==
    AgentResponse("fallback", 3, {}, {}, ctx.language, TRUE, 0)

(***************************************************************************)
(* LanguageProcessor.translate_from_english, for the text of the error     *)
(* response.  A text is kept as the language it is written in and the      *)
(* error message it quotes.  The cache key is the target language and the  *)
(* first 100 characters of the English text (language_processor.py, line   *)
(* 121); the error text opens with the same 71 characters whatever the     *)
(* message (agent_orchestrator.py, line 466), so the key holds the first   *)
(* 29 characters of the message.                                           *)
(***************************************************************************)
\* Messages longer than 29 characters that open alike.
LongMessages == {"'NoneType' object has no attribute 'lower'",
                 "'NoneType' object has no attribute 'split'"}

\* text[:100] of the error text, as the part of the message it holds.
MessagePrefix(message) ==
    IF message \in LongMessages THEN "'NoneType' object has no attr"
    ELSE message

cache_key(message, target_language) ==
    <<"en", target_language, MessagePrefix(message)>>

\* The text and the cache after translate_from_english (lines 112-141);
\* translator_ok is whether the translation service answers.
translate_from_english(message, target_language, cache, translator_ok) ==
    LET english == [lang |-> "en", quotes |-> message]
        key == cache_key(message, target_language)
        translated == [lang |-> target_language, quotes |-> message]
    IN  IF target_language = "en" THEN [text |-> english, cache |-> cache]
        ELSE IF key \in DOMAIN cache THEN [text |-> cache[key], cache |-> cache]
        ELSE IF translator_ok
               THEN [text |-> translated, cache |-> Put(cache, key, translated)]
        ELSE [text |-> english, cache |-> cache]

\* _create_error_response (lines 463-478), with the text of its content.
create_error_response(error_message, lang, text) ==
    [AgentResponse("error", 0, {}, {}, lang, FALSE, 0) EXCEPT !.detail = text]

\* _handle_irrelevant_query
handle_irrelevant_response(ctx) ==
    AgentResponse("irrelevant", 5, {}, {}, ctx.language, TRUE, 0)

\* _finalize_response: the moderate-confidence note is appended below 0.7.
finalize_response(r) ==
    [r EXCEPT !.note = (r.confidence < 7)]

(***************************************************************************)
(* Init: the orchestrator after __init__, a request about to be processed. *)
(***************************************************************************)
Init ==
    /\ max_iterations \in 0..MaxIter
    /\ max_workers \in WorkerChoices
    /\ language \in Languages
    /\ translation_cache = EmptyMap
    /\ calls = 1
    /\ executions = 0
    /\ pc = "detect_language"
    /\ context = None
    /\ iteration = 0
    /\ best_response = None
    /\ tool_names = <<>>
    /\ future = EmptyMap
    /\ results = EmptyMap
    /\ quality_score = 0
    /\ response = None
    /\ fault = ""
    /\ final = None
    /\ stored = 0
    /\ batches = 0
    /\ timed_out = FALSE
    /\ late = {}
    /\ max_confidence = 0
    /\ any_success = FALSE
    /\ accepted_at = 0
    /\ assessed_query = 0 - 1
    /\ stored_query = 0 - 1
    /\ tools = RegisterAll(EmptyRegistry, InitialTools).tools
    /\ tool_categories = RegisterAll(EmptyRegistry, InitialTools).tool_categories
    /\ tool_performance = RegisterAll(EmptyRegistry, InitialTools).tool_performance
    /\ last_call = NoCall

\* An exception raised inside process_query's try block reaches its handler.
Raise(what) ==
    /\ pc' = "except"
    /\ fault' = what

(***************************************************************************)
(* process_query, step 1: language detection (line 112).                   *)
(***************************************************************************)
detect_language ==
    /\ pc = "detect_language"
    /\ \/ /\ pc' = "build_query_context"
          /\ fault' = fault
       \/ Raise("detect_language failed")
    /\ UNCHANGED <<cfg_vars, loop_vars, batch_vars, hist_vars,
                   context, final, stored>>

(***************************************************************************)
(* process_query, step 2: _build_query_context (lines 146-174).  The       *)
(* classifier and the memory store answer, or one of them raises.          *)
(***************************************************************************)
build_query_context ==
    /\ pc = "build_query_context"
    /\ \/ /\ \E qt \in QueryTypes, web \in BOOLEAN, rel \in {3, 9} :
                context' = [kind |-> "QueryContext", query |-> 0,
                            language |-> language, query_type |-> qt,
                            domain_relevance |-> rel,
                            web_search_enabled |-> web]
          /\ pc' = "domain_relevance_check"
          /\ fault' = fault
       \/ /\ \E what \in LongMessages \cup {"memory store failed"} :
                Raise(what)
          /\ context' = context
    /\ UNCHANGED <<cfg_vars, loop_vars, batch_vars, hist_vars, final, stored>>

(***************************************************************************)
(* process_query, step 3 (lines 124-125): an irrelevant query is answered  *)
(* with the clarification response and nothing else runs.                  *)
(***************************************************************************)
handle_irrelevant_query ==
    /\ pc = "domain_relevance_check"
    /\ context.domain_relevance < domain_relevance_threshold
    /\ final' = handle_irrelevant_response(context)
    /\ pc' = "done"
    /\ UNCHANGED <<cfg_vars, loop_vars, batch_vars, hist_vars,
                   context, fault, stored>>

\* enter_loop without the relevance check of line 124.
enter_loop_unchecked ==
    /\ pc = "domain_relevance_check"
    /\ iteration' = 0
    /\ best_response' = None
    /\ pc' = "loop"
    /\ UNCHANGED <<cfg_vars, quality_score, response, batch_vars, hist_vars,
                   context, fault, final, stored>>

(***************************************************************************)
(* _iterative_processing_loop is entered (lines 128, 181-182).             *)
(***************************************************************************)
enter_loop ==
    /\ pc = "domain_relevance_check"
    /\ context.domain_relevance >= domain_relevance_threshold
    /\ iteration' = 0
    /\ best_response' = None
    /\ pc' = "loop"
    /\ UNCHANGED <<cfg_vars, quality_score, response, batch_vars, hist_vars,
                   context, fault, final, stored>>

\* begin_iteration with the loop condition off by one (<= for <).
begin_iteration_off_by_one ==
    /\ pc = "loop"
    /\ iteration <= max_iterations
    /\ iteration' = iteration + 1
    /\ tool_names' = select_tools_for(context)
    /\ pc' = "submit"
    /\ UNCHANGED <<cfg_vars, best_response, quality_score, response,
                   future, results, timed_out, late, batches, hist_vars,
                   context, fault, final, stored>>

(***************************************************************************)
(* One pass begins (lines 184-189): the counter is incremented and the     *)
(* tools are selected.                                                     *)
(***************************************************************************)
begin_iteration ==
    /\ pc = "loop"
    /\ iteration < max_iterations
    /\ iteration' = iteration + 1
    /\ tool_names' = select_tools_for(context)
    /\ pc' = "submit"
    /\ UNCHANGED <<cfg_vars, best_response, quality_score, response,
                   future, results, timed_out, late, batches, hist_vars,
                   context, fault, final, stored>>

(***************************************************************************)
(* _execute_tools_parallel (lines 243-269).                                *)
(*                                                                         *)
(* A future is queued, running or done; a done future holds what the call  *)
(* did.  The pool starts work items in submission order, at most           *)
(* max_workers at a time.                                                  *)
(***************************************************************************)
Queued   == [st |-> "queued", out |-> ""]
Running  == [st |-> "running", out |-> ""]
Done(o)  == [st |-> "done", out |-> o]

Unfinished == {t \in DOMAIN future : future[t].st # "done"}
NumRunning == Cardinality({t \in DOMAIN future : future[t].st = "running"})

\* Every name of tool_names, resolved or not.
Submitted_unfiltered(names) == names

\* The names of tool_names that resolve in the registry, in order.
Submitted(names) == SelectSeq(names, get_tool)

\* Lines 249-256: every resolvable name is submitted to the pool.
submit_tools ==
    /\ pc = "submit"
    /\ future' = [t \in Range(Submitted(tool_names)) |-> Queued]
    /\ results' = EmptyMap
    /\ timed_out' = FALSE
    /\ late' = {}
    /\ batches' = batches + 1
    /\ pc' = "as_completed"
    /\ UNCHANGED <<cfg_vars, loop_vars, tool_names, hist_vars,
                   context, fault, final, stored>>

\* The first queued work item, in submission order.
NextQueued ==
    LET sub == Submitted(tool_names)
        idx == {i \in DOMAIN sub : future[sub[i]].st = "queued"}
    IN  IF idx = {} THEN {}
        ELSE {sub[CHOOSE i \in idx : \A j \in idx : i <= j]}

\* tool_start of a pool that starts a thread for every work item.
tool_start_unbounded ==
    /\ pc \in {"as_completed", "shutdown"}
    /\ \E t \in NextQueued :
          future' = [future EXCEPT ![t] = Running]
    /\ UNCHANGED <<cfg_vars, loop_vars, tool_names, results, timed_out, late,
                   batches, hist_vars, pc, context, fault, final, stored>>

\* A free worker thread takes the next work item and calls tool.execute.
tool_start ==
    /\ pc \in {"as_completed", "shutdown"}
    /\ NumRunning < max_workers
    /\ \E t \in NextQueued :
          future' = [future EXCEPT ![t] = Running]
    /\ UNCHANGED <<cfg_vars, loop_vars, tool_names, results, timed_out, late,
                   batches, hist_vars, pc, context, fault, final, stored>>

\* tool.execute returns or raises in its worker thread.
tool_finish ==
    /\ pc \in {"as_completed", "shutdown"}
    /\ \E t \in DOMAIN future, o \in Outcomes :
          /\ future[t].st = "running"
          /\ future' = [future EXCEPT ![t] = Done(o)]
    /\ UNCHANGED <<cfg_vars, loop_vars, tool_names, results, timed_out, late,
                   batches, hist_vars, pc, context, fault, final, stored>>

\* Lines 261-267: what the loop body stores for a completed future.
result_entry(o) ==
    IF o = "raise" THEN [success |-> FALSE, error |-> "exception", own |-> FALSE]
    ELSE IF o = "fail" THEN [success |-> FALSE, error |-> "tool error", own |-> TRUE]
    ELSE [success |-> TRUE, error |-> "", own |-> TRUE]

\* collect_result without the try/except of lines 261-267: a tool's exception
\* leaves the for loop.
collect_result_unguarded ==
    /\ pc = "as_completed"
    /\ \E t \in DOMAIN future :
          /\ future[t].st = "done"
          /\ t \notin DOMAIN results
          /\ IF future[t].out = "raise"
               THEN /\ Raise("tool exception")
                    /\ results' = results
               ELSE /\ results' = Put(results, t, result_entry(future[t].out))
                    /\ UNCHANGED <<pc, fault>>
    /\ UNCHANGED <<cfg_vars, loop_vars, tool_names, future, timed_out, late,
                   batches, hist_vars, context, final, stored>>

\* Lines 259-267: as_completed yields a finished future and the body runs.
collect_result ==
    /\ pc = "as_completed"
    /\ \E t \in DOMAIN future :
          /\ future[t].st = "done"
          /\ t \notin DOMAIN results
          /\ results' = Put(results, t, result_entry(future[t].out))
    /\ UNCHANGED <<cfg_vars, loop_vars, tool_names, future, timed_out, late,
                   batches, hist_vars, pc, context, fault, final, stored>>

\* Line 259: task_timeout elapses while as_completed still waits for a
\* future: it raises TimeoutError, which leaves the for loop and enters the
\* with block's exit, ThreadPoolExecutor.shutdown(wait=True).
deadline ==
    /\ pc = "as_completed"
    /\ Unfinished # {}
    /\ timed_out' = TRUE
    /\ late' = Unfinished
    /\ pc' = "shutdown"
    /\ UNCHANGED <<cfg_vars, loop_vars, tool_names, future, results,
                   batches, hist_vars, context, fault, final, stored>>

\* shutdown(wait=True) returns when every worker is through; the
\* TimeoutError then propagates out of _execute_tools_parallel and of the
\* loop, to process_query's handler.
shutdown_raise ==
    /\ pc = "shutdown"
    /\ Unfinished = {}
    /\ Raise("TimeoutError")
    \* The futures and the results dict are gone with the frame.
    /\ future' = EmptyMap
    /\ results' = EmptyMap
    /\ UNCHANGED <<cfg_vars, loop_vars, tool_names, timed_out, late, batches,
                   hist_vars, context, final, stored>>

\* return_results of a loop that stops waiting at the first result.
return_results_early ==
    /\ pc = "as_completed"
    /\ DOMAIN results # {}
    /\ pc' = "assess"
    /\ any_success' = (any_success \/ \E t \in DOMAIN results : results[t].success)
    /\ UNCHANGED <<cfg_vars, loop_vars, batch_vars, max_confidence, accepted_at,
                   assessed_query, stored_query, context, fault, final, stored>>

\* Lines 259, 269: every future was yielded; the with block exits at once
\* and the results dict is returned.
return_results ==
    /\ pc = "as_completed"
    /\ DOMAIN results = DOMAIN future
    /\ pc' = "assess"
    /\ any_success' = (any_success \/ \E t \in DOMAIN results : results[t].success)
    /\ UNCHANGED <<cfg_vars, loop_vars, batch_vars, max_confidence, accepted_at,
                   assessed_query, stored_query, context, fault, final, stored>>

(***************************************************************************)
(* Lines 194-200: the quality assessor scores the results and the          *)
(* candidate response is synthesized; either call may raise (the assessor  *)
(* is a collaborator outside these sources; _synthesize_response raises on *)
(* an entry without get).                                                  *)
(***************************************************************************)
assess_and_synthesize ==
    /\ pc = "assess"
    /\ \/ /\ \E q \in Scores, c \in Confidences :
                /\ quality_score' = q
                /\ response' = synthesize_response(context, results, c, iteration)
                /\ max_confidence' = IF c > max_confidence THEN c ELSE max_confidence
          /\ pc' = "decide"
          /\ fault' = fault
       \/ /\ Raise("quality assessor failed")
          /\ UNCHANGED <<quality_score, response, max_confidence>>
    \* Line 196: assess_results is called with context.query.
    /\ assessed_query' = context.query
    \* The futures are gone with _execute_tools_parallel's frame.
    /\ future' = EmptyMap
    /\ UNCHANGED <<cfg_vars, iteration, best_response, tool_names, results,
                   timed_out, late, batches, any_success, accepted_at,
                   stored_query, context, final, stored>>

(***************************************************************************)
(* Lines 203-205: the quality threshold is met, the loop returns.          *)
(***************************************************************************)
accept_response ==
    /\ pc = "decide"
    /\ quality_score >= confidence_threshold
    /\ accepted_at' = iteration
    /\ pc' = "finalize"
    \* The loop's frame is left; the response holds the results.
    /\ results' = EmptyMap
    /\ UNCHANGED <<cfg_vars, loop_vars, tool_names, future, timed_out, late,
                   batches, max_confidence, any_success, assessed_query,
                   stored_query, context, fault, final, stored>>

\* Lines 207-209 without the test for None.
store_best_after_first(best, q, r) ==
    IF best # None /\ q > best.confidence THEN r ELSE best

\* Lines 207-209: the best response so far.
store_best(best, q, r) ==
    IF best = None \/ q > best.confidence THEN r ELSE best

\* refine_query when line 205 does not return: the pass goes on to the
\* refinement whatever the score.
refine_query_without_return ==
    /\ pc = "decide"
    /\ best_response' = store_best(best_response, quality_score, response)
    /\ \/ /\ context' = [context EXCEPT !.query = @ + 1]
          /\ pc' = "loop"
          /\ fault' = fault
       \/ /\ Raise("quality assessor failed")
          /\ context' = context
    /\ quality_score' = 0
    /\ response' = None
    /\ future' = EmptyMap
    /\ results' = EmptyMap
    /\ UNCHANGED <<cfg_vars, iteration, tool_names, timed_out, late, batches,
                   hist_vars, final, stored>>

(***************************************************************************)
(* Lines 207-212: below the threshold, the best response is kept and the   *)
(* query is refined in place; identify_missing_information may raise.      *)
(***************************************************************************)
refine_query ==
    /\ pc = "decide"
    /\ quality_score < confidence_threshold
    /\ best_response' = store_best(best_response, quality_score, response)
    /\ \/ /\ context' = [context EXCEPT !.query = @ + 1]
          /\ pc' = "loop"
          /\ fault' = fault
       \/ /\ Raise("quality assessor failed")
          /\ context' = context
    \* The pass is over: its locals are dead, the next pass assigns them anew.
    /\ quality_score' = 0
    /\ response' = None
    /\ future' = EmptyMap
    /\ results' = EmptyMap
    /\ UNCHANGED <<cfg_vars, iteration, tool_names, timed_out, late, batches,
                   hist_vars, final, stored>>

\* Line 215 without the fallback: best_response as it is.
loop_result_without_fallback(best, ctx) == best

\* Line 215: best_response or the fallback.
loop_result(best, ctx) ==
    IF best # None THEN best ELSE create_fallback_response(ctx)

(***************************************************************************)
(* Lines 214-215: the budget is exhausted.                                 *)
(***************************************************************************)
exhaust_iterations ==
    /\ pc = "loop"
    /\ iteration >= max_iterations
    /\ response' = loop_result(best_response, context)
    /\ pc' = "finalize"
    /\ UNCHANGED <<cfg_vars, iteration, best_response, quality_score,
                   batch_vars, hist_vars, context, fault, final, stored>>

(***************************************************************************)
(* process_query, step 5 (line 131): _finalize_response.                   *)
(***************************************************************************)
finalize ==
    /\ pc = "finalize"
    /\ response' = finalize_response(response)
    /\ pc' = "update_memory"
    /\ UNCHANGED <<cfg_vars, iteration, best_response, quality_score,
                   batch_vars, hist_vars, context, fault, final, stored>>

(***************************************************************************)
(* process_query, step 6 and the return (lines 134-140): the interaction   *)
(* is stored, or the store raises.                                         *)
(***************************************************************************)
update_memory ==
    /\ pc = "update_memory"
    /\ \/ /\ stored' = stored + 1
          \* Line 436: the interaction holds context.query.
          /\ stored_query' = context.query
          /\ final' = response
          /\ pc' = "done"
          /\ fault' = fault
       \/ /\ Raise("memory store failed")
          /\ UNCHANGED <<stored, stored_query, final>>
    /\ UNCHANGED <<cfg_vars, loop_vars, batch_vars, max_confidence, any_success,
                   accepted_at, assessed_query, context>>

(***************************************************************************)
(* process_query's handler (lines 142-144): any exception becomes the      *)
(* error response.  translate_from_english catches its own failures and    *)
(* returns the text it was given, so the handler always returns.           *)
\* handle_exception that also stores the interaction.
handle_exception_storing ==
    /\ pc = "except"
    /\ \E translator_ok \in BOOLEAN :
          LET tr == translate_from_english(fault, language, translation_cache,
                                           translator_ok)
          IN  /\ final' = create_error_response(fault, language, tr.text)
              /\ translation_cache' = tr.cache
    /\ stored' = stored + 1
    /\ pc' = "done"
    /\ UNCHANGED <<obj_vars, loop_vars, batch_vars, hist_vars, context, fault>>

(***************************************************************************)
handle_exception ==
    /\ pc = "except"
    /\ \E translator_ok \in BOOLEAN :
          LET tr == translate_from_english(fault, language, translation_cache,
                                           translator_ok)
          IN  /\ final' = create_error_response(fault, language, tr.text)
              /\ translation_cache' = tr.cache
    /\ pc' = "done"
    /\ UNCHANGED <<obj_vars, loop_vars, batch_vars, hist_vars,
                   context, fault, stored>>

(***************************************************************************)
(* The caller makes another process_query call on the same orchestrator:   *)
(* the configuration, the registry and the translation cache stay, the     *)
(* call's own state starts anew.                                           *)
(***************************************************************************)
next_call ==
    /\ pc = "done"
    /\ calls < MaxCalls
    /\ calls' = calls + 1
    /\ language' \in Languages
    /\ pc' = "detect_language"
    /\ context' = None
    /\ iteration' = 0
    /\ best_response' = None
    /\ tool_names' = <<>>
    /\ future' = EmptyMap
    /\ results' = EmptyMap
    /\ quality_score' = 0
    /\ response' = None
    /\ fault' = ""
    /\ final' = None
    /\ stored' = 0
    /\ batches' = 0
    /\ timed_out' = FALSE
    /\ late' = {}
    /\ max_confidence' = 0
    /\ any_success' = FALSE
    /\ accepted_at' = 0
    /\ assessed_query' = 0 - 1
    /\ stored_query' = 0 - 1
    /\ UNCHANGED <<max_iterations, max_workers, translation_cache,
                   executions, reg_vars, last_call>>

Next ==
    \/ detect_language
    \/ build_query_context
    \/ handle_irrelevant_query
    \/ enter_loop
    \/ begin_iteration
    \/ submit_tools
    \/ tool_start
    \/ tool_finish
    \/ collect_result
    \/ deadline
    \/ shutdown_raise
    \/ return_results
    \/ assess_and_synthesize
    \/ accept_response
    \/ refine_query
    \/ exhaust_iterations
    \/ finalize
    \/ update_memory
    \/ handle_exception

Spec == Init /\ [][Next]_vars

\* One orchestrator serving MaxCalls calls, one after the other.
FollowUpNext ==
    \/ Next
    \/ next_call

FollowUpSpec == Init /\ [][FollowUpNext]_vars

\* Every call made by the request returns: the collaborators answer or raise,
\* the worker threads run their tools to an end, and the event loop goes on
\* with the coroutine.
FairSpec == Spec /\ WF_vars(Next)

(***************************************************************************)
(*                    Properties of the orchestrator                       *)
(***************************************************************************)

\* The positions inside _iterative_processing_loop.
InLoop == pc \in {"loop", "submit", "as_completed", "shutdown", "assess", "decide"}

\* The batch of the current pass is over: _execute_tools_parallel returned
\* or raised.
BatchOver == pc \notin {"submit", "as_completed", "shutdown"}

\* C1: when the batch timeout expires before some submitted tool has
\* completed, _execute_tools_parallel still returns a result map: the late
\* tool has an entry with success False, the tools that completed in time have
\* their entries.  (The code raises TimeoutError instead.)
C1_TimeoutYieldsFailureEntries ==
    (timed_out /\ late # {} /\ BatchOver) =>
        /\ fault # "TimeoutError"
        /\ \A t \in late : t \in DOMAIN results /\ ~results[t].success

\* C2: the executor returns once the timeout has elapsed: it is never blocked
\* past the deadline by a tool that has not completed.  (The with block's
\* shutdown(wait=True) blocks until every tool is through.)
C2_NotBlockedPastDeadline ==
    ~(timed_out /\ pc = "shutdown" /\ Unfinished # {})

\* C3: in a batch, a tool whose execute raises yields the failure entry
\* {success False, error} for that tool only: no tool's exception leaves the
\* executor, every entry of the result map is what its own tool did, and the
\* map the executor returns has an entry for every submitted tool, each run to
\* completion.
C3_FaultIsolation ==
    /\ fault # "tool exception"
    /\ pc \in {"as_completed", "shutdown", "assess"} =>
        \A t \in DOMAIN results :
          /\ t \in DOMAIN future
          /\ future[t].st = "done"
          /\ results[t].success = (future[t].out = "ok")
          /\ results[t].own = (future[t].out # "raise")
          /\ (future[t].out = "raise" => results[t].error = "exception")
    /\ pc = "assess" =>
          /\ DOMAIN results = Range(Submitted(tool_names))
          /\ \A t \in DOMAIN future : future[t].st = "done"

\* C3 witness: a returned batch in which one tool raised and another succeeded.
C3_Witness ==
    /\ pc = "assess"
    /\ \E t, u \in DOMAIN results :
          /\ future[t].out = "raise" /\ ~results[t].success
          /\ future[u].out = "ok" /\ results[u].success /\ results[u].own

\* C4: if the quality score assessed in iteration i reaches
\* confidence_threshold, the loop returns iteration i's candidate at once: the
\* next step of the call hands that candidate to the caller of the loop, and no
\* refinement, selection or batch follows; an accepted first iteration is the
\* only iteration.
C4_AcceptReturnsImmediately ==
    /\ [][(pc = "decide" /\ quality_score >= confidence_threshold) =>
            /\ pc' = "finalize"
            /\ response' = response
            /\ response.iteration = iteration
            /\ accepted_at' = iteration]_vars
    /\ [](accepted_at # 0 =>
            /\ iteration = accepted_at
            /\ batches = accepted_at
            /\ context.query = accepted_at - 1
            /\ pc \in {"finalize", "update_memory", "except", "done"}
            /\ (pc \in {"finalize", "update_memory"} =>
                    response.iteration = accepted_at)
            /\ ((pc = "done" /\ fault = "") => final.iteration = accepted_at))

\* C4 witness: a request answered by the candidate of its first iteration.
C4_Witness ==
    /\ pc = "done"
    /\ fault = ""
    /\ accepted_at = 1
    /\ max_iterations = default_max_iterations
    /\ iteration = 1
    /\ final.iteration = 1
    /\ final.content # "no_results"

\* C5: when the quality score stays below the threshold in every iteration,
\* the loop runs exactly max_iterations iterations and returns the candidate
\* with the highest confidence among those synthesized.  (The code compares
\* the quality score with the stored confidence.)
C5_ReturnsHighestConfidence ==
    (pc = "finalize" /\ accepted_at = 0 /\ max_iterations > 0) =>
        /\ iteration = max_iterations
        /\ response.confidence = max_confidence

\* C7: the loop never returns an empty or undefined result: whenever it
\* returns, for every max_iterations >= 0, it returns a response: the accepted
\* candidate, else best_response if set, else the fixed fallback response.
C7_LoopResultDefined ==
    pc = "finalize" =>
        /\ response # None
        /\ response.kind = "AgentResponse"
        /\ response.content # ""
        /\ (accepted_at # 0 => response.iteration = accepted_at)
        /\ (accepted_at = 0 /\ best_response # None => response = best_response)
        /\ (accepted_at = 0 /\ best_response = None =>
                response = create_fallback_response(context))

\* C7 witness: with no iteration allowed the loop returned the fallback.
C7_Witness ==
    /\ pc = "finalize"
    /\ max_iterations = 0
    /\ best_response = None
    /\ response.content = "fallback"

\* C8: process_query never propagates a fault: a fault raised while the
\* context is built, or by any later step, ends the call with the error
\* response, whose content carries the fault's description, with confidence
\* 0.0, no sources and empty tool results.  (The translation cache is keyed
\* by the first 100 characters of the text: a follow-up call in the same
\* language gets the text of an earlier fault whose message opens alike.)
C8_ErrorResponseCarriesFault ==
    (pc = "done" /\ fault # "") =>
        /\ final.content = "error"
        /\ final.detail.quotes = fault
        /\ final.confidence = 0
        /\ final.sources = {}
        /\ final.tool_results = {}

\* C9: when every tool fails in every iteration of a process_query call, the
\* caller still receives a response with content, and that response has
\* requires_clarification set.  (The synthesized no-results response never
\* sets it.)
C9_TotalFailureAsksClarification ==
    (pc = "done" /\ fault = "" /\ batches >= 1 /\ ~any_success) =>
        /\ final.content # ""
        /\ final.requires_clarification

\* C6: the loop terminates for every behaviour of the assessor and the tools
\* (each call returning); the iteration counter never exceeds max_iterations
\* and at most max_iterations batches are executed in one process_query call.
C6_LoopTerminatesWithinBudget ==
    /\ [](iteration <= max_iterations /\ batches <= max_iterations)
    /\ <>(~InLoop /\ pc # "detect_language" /\ pc # "build_query_context"
            /\ pc # "domain_relevance_check")

\* C6 witness: a request that used its whole budget of three iterations.
C6_Witness ==
    /\ pc = "done"
    /\ max_iterations = default_max_iterations
    /\ iteration = max_iterations
    /\ batches = max_iterations
    /\ accepted_at = 0
    /\ fault = ""

(***************************************************************************)
(* The registry's own behaviours: tools are registered, unregistered and   *)
(* selected in any order.                                                  *)
(***************************************************************************)

\* The tool objects a caller registers: three names, two of them also with an
\* object in another category; validate_input overridden or not; fresh or
\* already used (update_metrics, lines 80-99).
ToolObjects ==
    { BaseTool("search", {"search", "cloud"}, "search", "default", 0, 0, 0),
      BaseTool("search", {"search", "cloud"}, "analysis", "default", 2, 1, 2),
      BaseTool("perf", {"performance", "analysis"}, "analysis", "default", 0, 0, 0),
      BaseTool("perf", {"performance", "analysis"}, "search", "reject", 1, 1, 1),
      BaseTool("diag", {"diagnose", "cloud", "performance"}, "diagnostic",
               "default", 2, 2, 1) }

ToolNames == {t.name : t \in ToolObjects}

\* The queries of select_tools, as word sets: a blank query and another.
Queries == { {}, {"cloud", "performance", "slow"} }

\* The query types of select_tools' context.
SelectQueryTypes == {"troubleshooting", "performance"}

\* No process_query call is under way.
IdleOrchestrator ==
    /\ max_iterations = default_max_iterations
    /\ max_workers \in WorkerChoices
    /\ language = "en"
    /\ translation_cache = EmptyMap
    /\ calls = 0
    /\ executions = 0
    /\ pc = "idle"
    /\ context = None
    /\ iteration = 0
    /\ best_response = None
    /\ tool_names = <<>>
    /\ future = EmptyMap
    /\ results = EmptyMap
    /\ quality_score = 0
    /\ response = None
    /\ fault = ""
    /\ final = None
    /\ stored = 0
    /\ batches = 0
    /\ timed_out = FALSE
    /\ late = {}
    /\ max_confidence = 0
    /\ any_success = FALSE
    /\ accepted_at = 0
    /\ assessed_query = 0 - 1
    /\ stored_query = 0 - 1

RegInit ==
    /\ IdleOrchestrator
    /\ tools = EmptyRegistry.tools
    /\ tool_categories = EmptyRegistry.tool_categories
    /\ tool_performance = EmptyRegistry.tool_performance
    /\ last_call = NoCall

\* ToolRegistry.register_tool (lines 122-153)
register_tool ==
    \E tool \in ToolObjects :
        /\ tools' = RegisterTool(Registry, tool).tools
        /\ tool_categories' = RegisterTool(Registry, tool).tool_categories
        /\ tool_performance' = RegisterTool(Registry, tool).tool_performance
        /\ last_call' = [op |-> "register_tool", tool |-> tool, ret |-> TRUE,
                         before |-> Registry]
        /\ UNCHANGED orch_vars

\* unregister_tool that, for a name it does not find, still strips the name
\* from the category lists before it returns False.
unregister_tool_stripping ==
    \E name \in ToolNames :
        /\ IF Registered(Registry, name)
             THEN /\ tools' = UnregisterTool(Registry, name).tools
                  /\ tool_categories' = UnregisterTool(Registry, name).tool_categories
                  /\ tool_performance' = UnregisterTool(Registry, name).tool_performance
                  /\ last_call' = [op |-> "unregister_tool", name |-> name,
                                   ret |-> TRUE]
             ELSE /\ tool_categories' =
                        [c \in DOMAIN tool_categories |->
                            SelectSeq(tool_categories[c], LAMBDA n : n # name)]
                  /\ UNCHANGED <<tools, tool_performance>>
                  /\ last_call' = [op |-> "unregister_tool", name |-> name,
                                   ret |-> FALSE]
        /\ UNCHANGED orch_vars

\* ToolRegistry.unregister_tool (lines 155-186)
unregister_tool ==
    \E name \in ToolNames :
        /\ IF Registered(Registry, name)
             THEN /\ tools' = UnregisterTool(Registry, name).tools
                  /\ tool_categories' = UnregisterTool(Registry, name).tool_categories
                  /\ tool_performance' = UnregisterTool(Registry, name).tool_performance
                  /\ last_call' = [op |-> "unregister_tool", name |-> name,
                                   ret |-> TRUE]
             ELSE /\ UNCHANGED reg_vars
                  /\ last_call' = [op |-> "unregister_tool", name |-> name,
                                   ret |-> FALSE]
        /\ UNCHANGED orch_vars

\* The list in reverse order.
Reversed(list) == [i \in DOMAIN list |-> list[Len(list) + 1 - i]]

\* select_tools whose ranking of equal scores is left to chance: the names
\* come in the order of the code or in the reverse order.
call_select_tools_unordered ==
    \E query \in Queries, query_type \in SelectQueryTypes,
       strategy \in Strategies, max_tools \in 0..MaxTools :
        LET out == select_tools(Registry, query, query_type, strategy, max_tools)
        IN  /\ \E r \in {out.ret, Reversed(out.ret)} :
                  last_call' = [op |-> "select_tools", query |-> query,
                                query_type |-> query_type, strategy |-> strategy,
                                max_tools |-> max_tools, path |-> out.path,
                                ret |-> r]
            /\ UNCHANGED <<orch_vars, reg_vars>>

\* ToolRegistry.select_tools (lines 227-247)
call_select_tools ==
    \E query \in Queries, query_type \in SelectQueryTypes,
       strategy \in Strategies, max_tools \in 0..MaxTools :
        LET out == select_tools(Registry, query, query_type, strategy, max_tools)
        IN  /\ last_call' = [op |-> "select_tools", query |-> query,
                             query_type |-> query_type, strategy |-> strategy,
                             max_tools |-> max_tools, path |-> out.path,
                             ret |-> out.ret]
            /\ UNCHANGED <<orch_vars, reg_vars>>

RegNext ==
    \/ register_tool
    \/ unregister_tool
    \/ call_select_tools

RegSpec == RegInit /\ [][RegNext]_vars

\* ToolRegistry.execute_tool (lines 363-424), called with any name, query
\* and behaviour of the tool; the call keeps the registry it found in before.
call_execute_tool ==
    /\ executions < MaxExec
    /\ \E tool_name \in ToolNames, query \in Queries, outcome \in Outcomes,
          response_time \in ResponseTimes :
          LET x == ExecuteTool(Registry, tool_name, query, outcome, response_time)
          IN  /\ tools' = x.reg.tools
              /\ tool_categories' = x.reg.tool_categories
              /\ tool_performance' = x.reg.tool_performance
              /\ last_call' = [op |-> "execute_tool", tool_name |-> tool_name,
                               query |-> query, path |-> x.path, ret |-> x.ret,
                               raised |-> x.raised, before |-> Registry]
    /\ executions' = executions + 1
    /\ UNCHANGED <<max_iterations, max_workers, translation_cache, calls, pc,
                   language, context, iteration, best_response, tool_names,
                   future, results, quality_score, response, fault, final,
                   stored, batches, timed_out, late, max_confidence,
                   any_success, accepted_at, assessed_query, stored_query>>

ExecNext ==
    \/ register_tool
    \/ unregister_tool
    \/ call_execute_tool

\* A registry whose tools are registered, unregistered and executed.
ExecSpec == RegInit /\ [][ExecNext]_vars

\* C10: in every registry state reached by register_tool and unregister_tool
\* calls, re-registration under another category included, and for each of
\* the four strategies, select_tools with max_tools = k returns at most k
\* names, pairwise distinct, all registered.  (A name registered again under
\* another category stays in its old category's list, and the category
\* strategy returns it once per list.)
C10_SelectionBoundedDistinctRegistered ==
    last_call.op = "select_tools" =>
        LET ret == last_call.ret
        IN  /\ Len(ret) <= last_call.max_tools
            /\ \A i, j \in DOMAIN ret : i # j => ret[i] # ret[j]
            /\ \A i \in DOMAIN ret : Registered(Registry, ret[i])

\* Every name of every category list.
BucketNames ==
    UNION {Range(tool_categories[c]) : c \in DOMAIN tool_categories}

\* C11: under each of the four strategies and in every registry state,
\* select_tools returns no tool whose validate_input(query, context) is false.
C11_SelectedToolsAreValid ==
    last_call.op = "select_tools" =>
        \A i \in DOMAIN last_call.ret :
            /\ Registered(Registry, last_call.ret[i])
            /\ validate_input(ToolNamed(Registry, last_call.ret[i]),
                              last_call.query)

\* C11 witness: a selection over a registry holding a tool that rejects the
\* input returned the other tools.
C11_Witness ==
    /\ last_call.op = "select_tools"
    /\ last_call.ret # <<>>
    /\ \E i \in DOMAIN tools :
          /\ ~validate_input(tools[i], last_call.query)
          /\ tools[i].name \notin Range(last_call.ret)

\* C12: after unregister_tool(name) succeeds, name is in no category list,
\* has no performance record and is in no result of a later select_tools,
\* whatever registrations preceded it.  (The list of a category the name was
\* registered under before keeps the name.)
C12_UnregisterRemovesEverywhere ==
    /\ (last_call.op = "unregister_tool" /\ last_call.ret) =>
          /\ ~Registered(Registry, last_call.name)
          /\ last_call.name \notin BucketNames
          /\ last_call.name \notin DOMAIN tool_performance
    /\ last_call.op = "select_tools" =>
          \A i \in DOMAIN last_call.ret : Registered(Registry, last_call.ret[i])

\* C13: in every registry state reached by register_tool and unregister_tool
\* the category index agrees with the tool map: every name of a list is a
\* registered tool of that category, every registered tool is in the list of
\* its category and in no other, no list holds a name twice and no list is
\* empty.  (Registering a name again under another category leaves it in the
\* old list.)
C13_CategoryIndexConsistent ==
    /\ \A c \in DOMAIN tool_categories :
          LET bucket == tool_categories[c]
          IN  /\ bucket # <<>>
              /\ \A i, j \in DOMAIN bucket : i # j => bucket[i] # bucket[j]
              /\ \A i \in DOMAIN bucket :
                    /\ Registered(Registry, bucket[i])
                    /\ ToolNamed(Registry, bucket[i]).category = c
    /\ \A i \in DOMAIN tools :
          /\ tools[i].category \in DOMAIN tool_categories
          /\ tools[i].name \in Range(tool_categories[tools[i].category])

\* C17: unregister_tool of a name that is not registered returns False
\* without raising and leaves the tool map, the category index and the
\* performance records as they were.
C17_UnregisterAbsentIsNoOp ==
    [][(last_call'.op = "unregister_tool"
          /\ ~Registered(Registry, last_call'.name)) =>
            /\ last_call'.ret = FALSE
            /\ tools' = tools
            /\ tool_categories' = tool_categories
            /\ tool_performance' = tool_performance]_vars

\* C17 witness: an unregistered name was unregistered again from a registry
\* that holds tools and still lists the name in a category.
C17_Witness ==
    /\ last_call.op = "unregister_tool"
    /\ last_call.ret = FALSE
    /\ tools # <<>>
    /\ last_call.name \in BucketNames

FirstPosition(list, name) ==
    LET idx == {i \in DOMAIN list : list[i] = name}
    IN  IF idx = {} THEN 0 - 1
        ELSE (CHOOSE i \in idx : \A j \in idx : i <= j) - 1

\* The reference total of a tool, times 10 * max_tools: weight *
\* (max_tools - i) for its position i in each strategy's list, 0 when absent.
ReferenceTotal(reg, name, query, query_type, max_tools) ==
    LET Part(weight, list) ==
            IF FirstPosition(list, name) < 0 THEN 0
            ELSE weight * (max_tools - FirstPosition(list, name))
    IN  Part(4, select_by_performance(reg, query, max_tools))
      + Part(4, select_by_category(reg, query, query_type, max_tools))
      + Part(2, select_by_relevance(reg, query, max_tools))

\* The tools that are in some strategy's list.
ReferenceCandidates(reg, query, query_type, max_tools) ==
    Range(select_by_performance(reg, query, max_tools))
    \cup Range(select_by_category(reg, query, query_type, max_tools))
    \cup Range(select_by_relevance(reg, query, max_tools))

\* C20: the hybrid strategy returns the reference ranking: the tools of the
\* three lists ordered by their reference total, highest first, cut to the
\* first max_tools names.  (A name that the category list holds twice is
\* counted at both positions.)
C20_HybridIsReferenceRanking ==
    (last_call.op = "select_tools" /\ last_call.strategy = "hybrid") =>
        LET ret == last_call.ret
            k   == last_call.max_tools
            Total(n) == ReferenceTotal(Registry, n, last_call.query,
                                       last_call.query_type, k)
            cand == ReferenceCandidates(Registry, last_call.query,
                                        last_call.query_type, k)
        IN  /\ Range(ret) \subseteq cand
            /\ \A i, j \in DOMAIN ret : i # j => ret[i] # ret[j]
            /\ Len(ret) = IF Cardinality(cand) < k THEN Cardinality(cand) ELSE k
            /\ \A i, j \in DOMAIN ret : i < j => Total(ret[i]) >= Total(ret[j])
            /\ \A n \in cand \ Range(ret) :
                  \A i \in DOMAIN ret : Total(ret[i]) >= Total(n)

\* C14: every execute_tool call on a registered tool updates that tool's
\* performance record exactly once, whatever the outcome: total_calls goes up
\* by exactly 1 and successful_calls by 1 only for a success.  (A call whose
\* input the tool's validate_input rejects returns before any update.)
C14_ExecuteRecordsEveryCall ==
    (last_call.op = "execute_tool"
        /\ Registered(last_call.before, last_call.tool_name)) =>
        LET n      == last_call.tool_name
            before == last_call.before.tool_performance[n]
        IN  /\ n \in DOMAIN tool_performance
            /\ tool_performance[n].total_calls = before.total_calls + 1
            /\ tool_performance[n].successful_calls =
                  before.successful_calls
                  + (IF last_call.ret.success THEN 1 ELSE 0)

\* C15: execute_tool on a tool whose execute always throws never raises to
\* the caller: each call (its input rejected, or execute reached and
\* throwing) returns a failed outcome with an error text and adds one to the
\* tool's total_calls and failed_calls and nothing to successful_calls, and
\* the tool's success rate stays 0 on a fresh tool.  (See C14: a call whose
\* input is rejected is not counted.)
C15_ThrowingToolIsCounted ==
    (last_call.op = "execute_tool"
        /\ last_call.path \in {"raise", "rejected"}) =>
        LET n      == last_call.tool_name
            before == last_call.before.tool_performance[n]
            tool   == ToolNamed(last_call.before, n)
        IN  /\ ~last_call.raised
            /\ ~last_call.ret.success
            /\ last_call.ret.error_message # ""
            /\ tool_performance[n].total_calls = before.total_calls + 1
            /\ tool_performance[n].failed_calls = before.failed_calls + 1
            /\ tool_performance[n].successful_calls = before.successful_calls
            /\ ToolNamed(Registry, n).successes = tool.successes

\* C16: register_tool is an idempotent upsert: registering under a name that
\* is registered returns True, replaces the stored tool, leaves the
\* registered names as they were and resets the name's performance record to
\* zeros with no errors; registering the same tool once more changes nothing.
C16_RegisterIsIdempotentUpsert ==
    last_call.op = "register_tool" =>
        LET tool   == last_call.tool
            before == last_call.before
        IN  /\ last_call.ret = TRUE
            /\ Registered(Registry, tool.name)
            /\ ToolNamed(Registry, tool.name) = tool
            /\ Names(tools) = IF Registered(before, tool.name)
                                THEN Names(before.tools)
                                ELSE Append(Names(before.tools), tool.name)
            /\ tool_performance[tool.name] = ZeroPerformance
            /\ \A n \in DOMAIN before.tool_performance \ {tool.name} :
                    /\ n \in DOMAIN tool_performance
                    /\ tool_performance[n] = before.tool_performance[n]
            /\ RegisterTool(Registry, tool) = Registry

\* C16 witness: a name with calls and an error on its record was registered
\* again with another tool object.
C16_Witness ==
    /\ last_call.op = "register_tool"
    /\ Registered(last_call.before, last_call.tool.name)
    /\ ToolNamed(last_call.before, last_call.tool.name) # last_call.tool
    /\ last_call.before.tool_performance[last_call.tool.name].total_calls = MaxExec
    /\ last_call.before.tool_performance[last_call.tool.name].error_patterns # <<>>

\* C18: execute_tool with a name that is not registered returns a failure
\* that says the tool was not found, raises nothing, and changes no
\* performance record and no tool.
C18_ExecuteUnknownToolFailsGracefully ==
    (last_call.op = "execute_tool"
        /\ ~Registered(last_call.before, last_call.tool_name)) =>
        /\ ~last_call.raised
        /\ ~last_call.ret.success
        /\ last_call.ret.error_message = "not found"
        /\ last_call.ret.tool_name = last_call.tool_name
        /\ Registry = last_call.before

\* C18 witness: a name was executed after it was unregistered, in a registry
\* that holds another tool with calls on its record.
C18_Witness ==
    /\ last_call.op = "execute_tool"
    /\ last_call.path = "not found"
    /\ last_call.tool_name \in BucketNames
    /\ \E n \in DOMAIN tool_performance : tool_performance[n].total_calls > 0

\* The place of a registered name in the tool map (registration order).
Place(name) == CHOOSE i \in DOMAIN tools : tools[i].name = name

\* Tool i is ranked ahead of tool j: a higher performance score, or the same
\* score and registered earlier.
RankedAhead(i, j) ==
    \/ BetterPerformance(tools[i], tools[j])
    \/ (~BetterPerformance(tools[j], tools[i]) /\ i < j)

\* C21: the performance strategy returns the validated tools ordered by
\* performance score, highest first, tools of equal score in registration
\* order, cut to max_tools names; with all performance data zero these are
\* the first max_tools validated tools in registration order.
C21_PerformanceOrdersByScore ==
    (last_call.op = "select_tools" /\ last_call.strategy = "performance") =>
        LET ret   == last_call.ret
            k     == last_call.max_tools
            valid == {i \in DOMAIN tools :
                        validate_input(tools[i], last_call.query)}
        IN  /\ Len(ret) = IF Cardinality(valid) < k THEN Cardinality(valid) ELSE k
            /\ \A r \in DOMAIN ret :
                  Registered(Registry, ret[r]) /\ Place(ret[r]) \in valid
            /\ \A r, q \in DOMAIN ret :
                  r < q => RankedAhead(Place(ret[r]), Place(ret[q]))
            /\ \A i \in valid : tools[i].name \notin Range(ret) =>
                  \A r \in DOMAIN ret : RankedAhead(Place(ret[r]), i)
            /\ (\A i \in DOMAIN tools : tools[i].usage_count = 0) =>
                  \A r \in DOMAIN ret :
                    Cardinality({i \in valid : i < Place(ret[r])}) = r - 1

\* C21 witness: three names were returned, the first registered after the
\* second (its score is higher), the second and third with equal scores.
C21_Witness ==
    /\ last_call.op = "select_tools"
    /\ last_call.strategy = "performance"
    /\ Len(last_call.ret) = 3
    /\ Place(last_call.ret[1]) > Place(last_call.ret[2])
    /\ ~BetterPerformance(ToolNamed(Registry, last_call.ret[2]),
                          ToolNamed(Registry, last_call.ret[3]))

\* The place of a category in the list of a query type (0: not in it).
CategoryPlace(query_type, category) ==
    LET cats == category_mapping(query_type)
        idx  == {i \in DOMAIN cats : cats[i] = category}
    IN  IF idx = {} THEN 0 ELSE CHOOSE i \in idx : TRUE

\* C22: the category strategy walks the categories of the query type in
\* their fixed order and appends each category's validated tools until
\* max_tools names are collected, no name twice; for a performance query
\* type and the tools search (search), perf (analysis), diag (diagnostic)
\* it returns [search, perf].  (A name re-registered under another category
\* is listed once per category, see C10.)
C22_CategoryWalksInOrder ==
    (last_call.op = "select_tools" /\ last_call.strategy = "category") =>
        LET ret == last_call.ret
            k   == last_call.max_tools
            qt  == last_call.query_type
            Cat(n) == CategoryPlace(qt, ToolNamed(Registry, n).category)
            eligible == {i \in DOMAIN tools :
                           /\ validate_input(tools[i], last_call.query)
                           /\ CategoryPlace(qt, tools[i].category) > 0}
        IN  /\ Len(ret) = IF Cardinality(eligible) < k
                            THEN Cardinality(eligible) ELSE k
            /\ \A r, q \in DOMAIN ret : r # q => ret[r] # ret[q]
            /\ \A r \in DOMAIN ret :
                  Registered(Registry, ret[r]) /\ Place(ret[r]) \in eligible
            /\ \A r, q \in DOMAIN ret : r < q => Cat(ret[r]) <= Cat(ret[q])
            /\ ( /\ qt = "performance" /\ k >= 2 /\ last_call.query # {}
                 /\ Len(tools) = 3
                 /\ \A i \in DOMAIN tools :
                       /\ tools[i].validation = "default"
                       /\ tools[i].category =
                            (IF tools[i].name = "search" THEN "search"
                             ELSE IF tools[i].name = "perf" THEN "analysis"
                             ELSE "diagnostic") )
                => ret = <<"search", "perf">>

\* Some submitted tool waits in the pool's queue.
SomeQueued == \E t \in DOMAIN future : future[t].st = "queued"

\* C23: within one batch never more than max_workers tool invocations run at
\* the same time; the tools beyond that number wait in the queue, and every
\* submitted tool is eventually started (each running tool returning): a
\* queued tool leaves the queue only by being started, the batch is not left
\* while a tool is queued, and the queue always drains.
C23_BoundedConcurrency ==
    /\ [](NumRunning <= max_workers)
    /\ [][\A t \in DOMAIN future :
            (future[t].st = "queued" /\ t \in DOMAIN future')
              => future'[t].st \in {"queued", "running"}]_vars
    /\ [][future' # future /\ SomeQueued => DOMAIN future' = DOMAIN future]_vars
    /\ SomeQueued ~> ~SomeQueued

\* C23 witness: the pool is full and a submitted tool waits in the queue.
C23_Witness ==
    /\ pc = "as_completed"
    /\ NumRunning = max_workers
    /\ SomeQueued

\* C24: in every iteration the tools submitted for execution are exactly the
\* names the registry's select_tools returns with the hybrid strategy for
\* the query and the context (here: for some query and some max_tools).
\* (_select_tools builds its list from fixed names and never asks the
\* registry.)
C24_SubmitsRegistrySelection ==
    pc = "as_completed" =>
        \E query \in Queries, max_tools \in 0..Len(tools) :
            DOMAIN future =
                Range(select_hybrid(Registry, query, context.query_type, max_tools))

\* C25: across the iterations of one loop run best_response is replaced only
\* by a candidate whose confidence is strictly higher than that of the
\* stored one.  (Line 208 compares the quality score with it, see C5.)
C25_BestReplacedOnlyByHigherConfidence ==
    [][(best_response # None /\ best_response' # None
            /\ best_response' # best_response) =>
          best_response'.confidence > best_response.confidence]_vars

\* C26: in every iteration the query passed to the assessor's scoring call is
\* the original query of the request (0 refinements).  (Line 212 assigns the
\* refined query to context.query, which line 196 passes.)
C26_AssessorGetsOriginalQuery ==
    assessed_query <= 0

\* C27: the context handed to the loop is never mutated: it holds the
\* original query throughout, and that is the query _update_memory stores.
\* (Line 212 assigns the refined query to the context's query field.)
C27_ContextKeepsOriginalQuery ==
    /\ context # None => context.query = 0
    /\ stored_query <= 0

\* C28: iterations never overlap: the batch of an iteration is left only
\* when none of its tools is queued or running, so assessment, refinement
\* and the next selection begin with every tool of the batch through, and
\* tools run only while the batch is collected.
C28_IterationsDoNotOverlap ==
    /\ [][(pc \in {"as_completed", "shutdown"}
             /\ pc' \notin {"as_completed", "shutdown"}) => Unfinished = {}]_vars
    /\ [](pc \notin {"as_completed", "shutdown"} => Unfinished = {})
    /\ [](pc = "assess" =>
            /\ DOMAIN results = DOMAIN future
            /\ DOMAIN future = Range(Submitted(tool_names)))

\* C28 witness: the second batch of three tools has resolved and is about to
\* be assessed under the refined query.
C28_Witness ==
    /\ pc = "assess"
    /\ iteration = 2
    /\ context.query = 1
    /\ Cardinality(DOMAIN future) = 3

\* C29: after a batch has returned, the performance record of every tool it
\* invoked has one more call: in a request, as many calls as batches.  (The
\* batch calls tool.execute, not ToolRegistry.execute_tool: no record is
\* written.)
C29_BatchUpdatesPerformanceRecords ==
    pc = "assess" =>
        \A t \in DOMAIN results :
            /\ t \in DOMAIN tool_performance
            /\ tool_performance[t].total_calls = batches

(***************************************************************************)
(* _update_performance_tracking (lines 426-455) called any number of times *)
(* on the record of one registered tool, with or without an error message. *)
(***************************************************************************)

\* The error_message arguments: none ("" for None), or a description.
ErrorMessages == {"", "timeout", "refused"}

TrackInit ==
    /\ IdleOrchestrator
    /\ \E tool \in {t \in ToolObjects : t.name = "search" /\ t.usage_count = 0} :
          /\ tools = RegisterTool(EmptyRegistry, tool).tools
          /\ tool_categories = RegisterTool(EmptyRegistry, tool).tool_categories
          /\ tool_performance = RegisterTool(EmptyRegistry, tool).tool_performance
    /\ last_call = [op |-> "update_performance_tracking", errors |-> <<>>]

\* One call; last_call.errors keeps every error description passed with a
\* failure, in the order of the calls.
call_update_performance_tracking ==
    /\ executions < MaxTrack
    /\ \E tool_name \in DOMAIN tool_performance, success \in BOOLEAN,
          response_time \in ResponseTimes, error_message \in ErrorMessages :
          /\ tool_performance' =
                update_performance_tracking(tool_performance, tool_name,
                                            success, response_time, error_message)
          /\ last_call' = [last_call EXCEPT !.errors =
                              IF ~success /\ error_message # ""
                                THEN Append(@, error_message) ELSE @]
    /\ executions' = executions + 1
    /\ UNCHANGED <<max_iterations, max_workers, translation_cache, calls, pc,
                   language, context, iteration, best_response, tool_names,
                   future, results, quality_score, response, fault, final,
                   stored, batches, timed_out, late, max_confidence,
                   any_success, accepted_at, assessed_query, stored_query,
                   tools, tool_categories>>

TrackNext == call_update_performance_tracking

TrackSpec == TrackInit /\ [][TrackNext]_vars

\* C30: after any sequence of recorded invocations the error list of a
\* tool's record holds at most 10 entries: the error descriptions recorded
\* last, in the order they occurred.
C30_ErrorListIsLastTen ==
    last_call.op = "update_performance_tracking" =>
        \A n \in DOMAIN tool_performance :
            LET kept == tool_performance[n].error_patterns
                all  == last_call.errors
            IN  /\ Len(kept) <= 10
                /\ Len(kept) = IF Len(all) < 10 THEN Len(all) ELSE 10
                /\ \A i \in DOMAIN kept :
                      kept[i] = all[Len(all) - Len(kept) + i]

\* C30 witness: twelve errors were recorded, the two evicted ones unlike the
\* two recorded last.
C30_Witness ==
    /\ last_call.op = "update_performance_tracking"
    /\ Len(last_call.errors) = 12
    /\ last_call.errors[1] # last_call.errors[11]
    /\ last_call.errors[2] # last_call.errors[12]

\* C31: after every failed invocation through execute_tool, the tool having
\* thrown or returned an outcome with success False and an error
\* description, that description is the newest entry of the tool's error
\* list.  (Line 403 passes no error message for a returned outcome.)
C31_FailureIsNewestError ==
    (last_call.op = "execute_tool" /\ last_call.path \in {"raise", "fail"}) =>
        LET errors == tool_performance[last_call.tool_name].error_patterns
        IN  /\ errors # <<>>
            /\ errors[Len(errors)] = last_call.ret.error_message

\* C32: for every registered tool, after any sequence of register_tool,
\* unregister_tool and execute_tool calls, the usage count of the tool's
\* metadata equals the total_calls of its performance record.
\* (register_tool zeroes the record and leaves the metadata.)
C32_MetadataProjectsRecord ==
    \A i \in DOMAIN tools :
        /\ tools[i].name \in DOMAIN tool_performance
        /\ tools[i].usage_count = tool_performance[tools[i].name].total_calls

\* C39: after any sequence of register_tool, unregister_tool and
\* execute_tool calls the names that hold a performance record are the
\* registered names, each registered once.
C39_RecordsMatchRegisteredNames ==
    /\ DOMAIN tool_performance = Range(Names(tools))
    /\ \A i, j \in DOMAIN tools : tools[i].name = tools[j].name => i = j

\* C39 witness: a tool with calls on its record was unregistered and a call
\* to it then found nothing, while another tool stays registered.
C39_Witness ==
    /\ last_call.op = "execute_tool"
    /\ last_call.path = "not found"
    /\ last_call.tool_name \in BucketNames
    /\ tools # <<>>
    /\ executions = MaxExec

\* C40: in every record total_calls = successful_calls + failed_calls, none
\* of them negative, and none of them decreases unless the record is reset
\* by a registration of its name (or removed).
C40_CallCountsAddUp ==
    /\ [](\A n \in DOMAIN tool_performance :
            /\ tool_performance[n].total_calls =
                  tool_performance[n].successful_calls
                  + tool_performance[n].failed_calls
            /\ tool_performance[n].total_calls >= 0
            /\ tool_performance[n].successful_calls >= 0
            /\ tool_performance[n].failed_calls >= 0)
    /\ [][\A n \in DOMAIN tool_performance \cap DOMAIN tool_performance' :
            \/ /\ tool_performance'[n].total_calls >= tool_performance[n].total_calls
               /\ tool_performance'[n].successful_calls
                    >= tool_performance[n].successful_calls
               /\ tool_performance'[n].failed_calls
                    >= tool_performance[n].failed_calls
            \/ /\ last_call'.op = "register_tool"
               /\ last_call'.tool.name = n
               /\ tool_performance'[n] = ZeroPerformance]_vars

\* C40 witness: a record holds a success and a failure.
C40_Witness ==
    \E n \in DOMAIN tool_performance :
        /\ tool_performance[n].successful_calls = 1
        /\ tool_performance[n].failed_calls = 1

\* Every entry of the result map is a failure.
AllFailed == \A t \in DOMAIN results : ~results[t].success

C34_IrrelevantQueryIsNotProcessed ==
    (context # None /\ context.domain_relevance < domain_relevance_threshold) =>
        /\ pc \in {"domain_relevance_check", "done"}
        /\ iteration = 0
        /\ batches = 0
        /\ future = EmptyMap
        /\ results = EmptyMap
        /\ stored = 0
        /\ fault = ""
        /\ pc = "done" =>
              /\ final.content = "irrelevant"
              /\ final.requires_clarification
              /\ final.confidence = 5
              /\ final.tool_results = {}
              /\ final.language = language

\* C34 witness: a request in Sinhala was found irrelevant and answered.
C34_Witness ==
    /\ pc = "done"
    /\ context # None
    /\ context.domain_relevance < domain_relevance_threshold
    /\ language = "si"
    /\ final.requires_clarification

\* C35: in one process_query call the interaction is stored at most once,
\* and only after the loop has returned a response and that response was
\* finalized; a call that ends with the error response has stored nothing.
C35_StoredOnceAfterFinalize ==
    /\ stored <= 1
    /\ pc # "done" => stored = 0
    /\ (pc = "done" /\ fault # "") => stored = 0
    /\ stored = 1 =>
          /\ fault = ""
          /\ final = response
          /\ final.content \notin {"error", "irrelevant"}
          /\ final.note = (final.confidence < 7)
          /\ (accepted_at # 0 \/ iteration >= max_iterations)
          /\ stored_query = context.query

\* C35 witness: a request accepted in its second iteration was stored.
C35_Witness ==
    /\ pc = "done"
    /\ stored = 1
    /\ accepted_at = 2

Resolved == {n \in Range(tool_names) : get_tool(n)}

\* C37: every key of the batch's result map is a requested name that was
\* registered when the batch was submitted; a requested name that is not
\* registered is skipped: it is not submitted and gets no entry, and the map
\* returned has the registered requested names as its keys.
C37_ResultKeysAreRegisteredRequests ==
    /\ DOMAIN results \subseteq Resolved
    /\ DOMAIN future \subseteq Resolved
    /\ pc \in {"as_completed", "shutdown", "assess"} => DOMAIN future = Resolved
    /\ pc \in {"assess", "decide"} => DOMAIN results = Resolved

\* C37 witness: a batch requested with two unregistered names returned its
\* three entries.
C37_Witness ==
    /\ pc = "assess"
    /\ "error_analyzer" \in Range(tool_names)
    /\ "solution_finder" \in Range(tool_names)
    /\ Cardinality(DOMAIN results) = 3

(***************************************************************************)
(* The registry with tools whose validate_input raises: tools are          *)
(* registered and unregistered and select_tools is called.                 *)
(***************************************************************************)

\* The tool objects registered here: two with BaseTool's validate_input and
\* two whose validate_input raises, one of these in a category that no query
\* type of SelectQueryTypes maps to.
FaultyToolObjects ==
    { BaseTool("search", {"search", "cloud"}, "search", "default", 0, 0, 0),
      BaseTool("perf", {"performance", "analysis"}, "analysis", "raise", 0, 0, 0),
      BaseTool("diag", {"diagnose", "cloud", "performance"}, "diagnostic",
               "default", 2, 2, 1),
      BaseTool("docs", {"cloud", "manual"}, "documentation", "raise", 0, 0, 0) }

\* ToolRegistry.register_tool (lines 122-153) with one of these objects.
register_faulty_tool ==
    \E tool \in FaultyToolObjects :
        /\ tools' = RegisterTool(Registry, tool).tools
        /\ tool_categories' = RegisterTool(Registry, tool).tool_categories
        /\ tool_performance' = RegisterTool(Registry, tool).tool_performance
        /\ last_call' = [op |-> "register_tool", tool |-> tool, ret |-> TRUE,
                         before |-> Registry]
        /\ UNCHANGED orch_vars

FaultNext ==
    \/ register_faulty_tool
    \/ unregister_tool
    \/ call_select_tools

FaultSpec == RegInit /\ [][FaultNext]_vars

\* The registered tools whose validate_input raises.
FaultyRegistered ==
    {i \in DOMAIN tools : validate_input_raises(tools[i], {})}

\* C38: select_tools never raises: when the strategy it calls raises, as when
\* a tool's validate_input throws, it returns the empty list.  One faulty
\* registered tool empties the selection of the performance, relevance and
\* hybrid strategies, which validate every tool, and of the category strategy
\* when its walk validates that tool.
C38_SelectToolsNeverRaises ==
    last_call.op = "select_tools" =>
        /\ last_call.path = "return"
        /\ strategy_raises(Registry, last_call.query, last_call.query_type,
                           last_call.strategy, last_call.max_tools)
              => last_call.ret = <<>>
        /\ (FaultyRegistered # {} /\ last_call.strategy # "category")
              => last_call.ret = <<>>
        /\ (last_call.strategy = "category" /\ last_call.max_tools > 0
              /\ \E i \in FaultyRegistered :
                    /\ tools[i].category = category_mapping(last_call.query_type)[1]
                    /\ tool_categories[tools[i].category][1] = tools[i].name)
              => last_call.ret = <<>>
        /\ \A i \in DOMAIN last_call.ret :
              /\ Registered(Registry, last_call.ret[i])
              /\ ~validate_input_raises(ToolNamed(Registry, last_call.ret[i]),
                                        last_call.query)

\* C38 witness: with two valid tools and a faulty one registered, a hybrid
\* selection for a query that the valid tools accept came back empty.
C38_Witness ==
    /\ last_call.op = "select_tools"
    /\ last_call.strategy = "hybrid"
    /\ last_call.query # {}
    /\ last_call.max_tools = MaxTools
    /\ Len(tools) = 3
    /\ Cardinality(FaultyRegistered) = 1
    /\ last_call.ret = <<>>

=============================================================================
